---- MODULE Spec2Model ----
(***************************************************************************)
(* GitLab review sync (skills/gitlab-review/api.mjs, run.mjs).            *)
(*                                                                         *)
(* Three specifications:                                                   *)
(*   SpecLocate  findLineInDiff applied to rendered unified-diff texts     *)
(*   Spec        autoSync and postDiscussion: target, fetch, per-comment   *)
(*               dispatch, summary                                         *)
(*   SpecRun     run() of run.mjs up to autoSync's call of postDiscussion  *)
(*                                                                         *)
(* A text (a JavaScript string) is a sequence of one-character strings.    *)
(* An optional value (null or a value) is a sequence of length <= 1.       *)
(***************************************************************************)
EXTENDS Integers, Sequences, FiniteSets, TLC

\* ------------------------------------------------------------------ bounds
MaxLines == 2       \* body lines of a diff text, over all its hunks
MaxHunks == 2       \* hunks of a diff text
MaxGap == 1         \* undisplayed lines in front of a hunk
MaxComments == 2    \* comments of one run
MaxChanges == 2     \* changed files of the merge request
MaxPushes == 1      \* pushes to the merge request while the run lasts

None == <<>>
Some(x) == <<x>>

\* ------------------------------------------------- JavaScript string helpers

Ch(s, i) == IF i \in 1..Len(s) THEN s[i] ELSE ""

DigitChars == <<"0", "1", "2", "3", "4", "5", "6", "7", "8", "9">>

IsDigit(c) == c \in {"0", "1", "2", "3", "4", "5", "6", "7", "8", "9"}

DigitValue(c) == (CHOOSE d \in 1..10 : DigitChars[d] = c) - 1

\* parseInt of a string of decimal digits
RECURSIVE parseInt(_)
parseInt(s) ==
    IF s = <<>> THEN 0
    ELSE 10 * parseInt(SubSeq(s, 1, Len(s) - 1)) + DigitValue(s[Len(s)])

startsWith(line, c) == Len(line) >= 1 /\ line[1] = c

\* the pieces of s between separators of width w that start at the indices
\* of the set at (String.prototype.split keeps empty pieces)
piecesBetween(s, at, w) ==
    LET m == Cardinality(at)
        cut(k) == CHOOSE c \in at : Cardinality({d \in at : d <= c}) = k
    IN  [k \in 1..(m + 1) |->
            SubSeq(s, IF k = 1 THEN 1 ELSE cut(k - 1) + w,
                      IF k = m + 1 THEN Len(s) ELSE cut(k) - 1)]

\* String.prototype.split('\n'): a text that ends with a newline has an
\* empty last piece
splitLines(s) == piecesBetween(s, {i \in 1..Len(s) : s[i] = "\n"}, 1)

\* /^@@/m matches "@@" at the start of the text or right after a newline
HunkMarkAt(s, i) ==
    /\ s[i] = "@"
    /\ Ch(s, i + 1) = "@"
    /\ i = 1 \/ s[i - 1] = "\n"

\* diffText.split(/^@@/m): the pieces between the marks, the marks removed
splitHunks(s) == piecesBetween(s, {i \in 1..Len(s) : HunkMarkAt(s, i)}, 2)

\* the text in front of the first "@@" kept as a hunk
sliceOne_keep(a) == a

\* Array.prototype.slice(1)
sliceOne(a) == IF a = <<>> THEN <<>> ELSE Tail(a)

\* \d+ and \d* are greedy: the index right after the digit run starting at p
RECURSIVE DigitRunEnd(_, _)
DigitRunEnd(s, p) == IF IsDigit(Ch(s, p)) THEN DigitRunEnd(s, p + 1) ELSE p

\* / -(\d+),?\d* \+(\d+),?\d* @@/ tried at index p: the two captured groups
HeaderMatchAt(s, p) ==
    LET a  == p + 2
        e1 == DigitRunEnd(s, a)
        c1 == IF Ch(s, e1) = "," THEN e1 + 1 ELSE e1
        e2 == DigitRunEnd(s, c1)
        b  == e2 + 2
        e3 == DigitRunEnd(s, b)
        c3 == IF Ch(s, e3) = "," THEN e3 + 1 ELSE e3
        e4 == DigitRunEnd(s, c3)
    IN  IF /\ Ch(s, p) = " " /\ Ch(s, p + 1) = "-"
           /\ e1 > a
           /\ Ch(s, e2) = " " /\ Ch(s, e2 + 1) = "+"
           /\ e3 > b
           /\ Ch(s, e4) = " " /\ Ch(s, e4 + 1) = "@" /\ Ch(s, e4 + 2) = "@"
        THEN Some(<<SubSeq(s, a, e1 - 1), SubSeq(s, b, e3 - 1)>>)
        ELSE None

\* hunk.match(...): the leftmost match anywhere in the hunk's text
RECURSIVE HeaderMatchFrom(_, _)
HeaderMatchFrom(hunk, p) ==
    IF p > Len(hunk) THEN None
    ELSE LET m == HeaderMatchAt(hunk, p)
         IN  IF m # None THEN m ELSE HeaderMatchFrom(hunk, p + 1)

headerMatch(hunk) == HeaderMatchFrom(hunk, 1)

\* ------------------------------------------------------------ findLineInDiff

\* let oldLine = parseInt(headerMatch[1]); let newLine = parseInt(headerMatch[2])
startCounters(m) == [oldLine |-> parseInt(m[1]), newLine |-> parseInt(m[2])]

\* a removed line that leaves both counters alone
onRemoved_stall(c) == c

\* line.startsWith('-'): oldLine++
onRemoved(c) == [c EXCEPT !.oldLine = @ + 1]

\* an added line counted as a line of the old file too
onAdded_both(c) == [oldLine |-> c.oldLine + 1, newLine |-> c.newLine + 1]

\* line.startsWith('+'), no match: newLine++
onAdded(c) == [c EXCEPT !.newLine = @ + 1]

\* any other line, no match: oldLine++; newLine++
onContext(c) == [oldLine |-> c.oldLine + 1, newLine |-> c.newLine + 1]

\* return { oldLine: null, newLine: newLine }
addedPosition(c) == [oldLine |-> None, newLine |-> c.newLine]

\* the position returned after the counters moved on
contextPosition_late(c) ==
    [oldLine |-> Some(c.oldLine + 1), newLine |-> c.newLine + 1]

\* return { oldLine: oldLine, newLine: newLine }
contextPosition(c) == [oldLine |-> Some(c.oldLine), newLine |-> c.newLine]

\* if (newLine > targetNewLine) break
\* the walk left as soon as the counter reaches the target
pastTarget_early(c, targetNewLine) == c.newLine >= targetNewLine

\* if (newLine > targetNewLine) break
pastTarget(c, targetNewLine) == c.newLine > targetNewLine

\* for (const line of lines) { ... }: the position found in this hunk, if any
RECURSIVE walkLines(_, _, _)
walkLines(lines, c, targetNewLine) ==
    IF lines = <<>> THEN None
    ELSE LET line == Head(lines)
             removed == startsWith(line, "-")
             added == ~removed /\ startsWith(line, "+")
         IN  IF ~removed /\ c.newLine = targetNewLine
             THEN Some(IF added THEN addedPosition(c) ELSE contextPosition(c))
             ELSE LET d == IF removed THEN onRemoved(c)
                           ELSE IF added THEN onAdded(c) ELSE onContext(c)
                  IN  IF pastTarget(d, targetNewLine) THEN None
                      ELSE walkLines(Tail(lines), d, targetNewLine)

\* const lines = hunk.split('\n').slice(1)
hunkLines(hunk) == sliceOne(splitLines(hunk))

\* the search ends with the first hunk walked: return instead of break
afterMiss_stop(rest) == <<>>

\* the hunks still to scan once a hunk's walk ended without a match (break
\* or exhaustion of its lines): the outer for loop goes on
afterMiss(rest) == rest

\* for (const hunk of hunks) { ... } return null
RECURSIVE scanHunks(_, _)
scanHunks(hunks, targetNewLine) ==
    IF hunks = <<>> THEN None
    ELSE LET hunk == Head(hunks)
             m == headerMatch(hunk)
         IN  IF m = None THEN scanHunks(Tail(hunks), targetNewLine)
             ELSE LET r == walkLines(hunkLines(hunk), startCounters(m[1]),
                                     targetNewLine)
                  IN  IF r # None THEN r
                      ELSE scanHunks(afterMiss(Tail(hunks)), targetNewLine)

findLineInDiff(text, targetNewLine) ==
    IF text = <<>> THEN None
    ELSE scanHunks(sliceOne(splitHunks(text)), targetNewLine)

\* ------------------------------------------- the diff texts GitLab hands over
\* A diff text is rendered from its hunks as git renders them.  A hunk is
\* [gap, body, hdr]: gap undisplayed lines lie in front of it, body is its
\* lines' kinds in order, hdr tells whether its header line is well formed.

Kinds == {"ctx", "add", "del", "quo"}

Trails == {"none", "nl", "marker"}

RECURSIVE renderNat(_)
renderNat(n) ==
    IF n < 10 THEN <<DigitChars[n + 1]>>
    ELSE renderNat(n \div 10) \o <<DigitChars[(n % 10) + 1]>>

\* a context line whose content is itself a hunk header: " @@ -3 +2 @@"
QuoteLine == <<" ", "@", "@", " ", "-", "3", " ", "+", "2", " ", "@", "@">>

MarkerLine ==
    <<"\\", " ", "N", "o", " ", "n", "e", "w", "l", "i", "n", "e", " ",
      "a", "t", " ", "e", "n", "d", " ", "o", "f", " ", "f", "i", "l", "e">>

lineText(kind) ==
    CASE kind = "ctx" -> <<" ", "a">>
      [] kind = "add" -> <<"+", "b">>
      [] kind = "del" -> <<"-", "c">>
      [] kind = "quo" -> QuoteLine

CountOf(body, S) == Cardinality({j \in 1..Len(body) : body[j] \in S})

OldKinds == Kinds \ {"add"}
NewKinds == Kinds \ {"del"}

oldCount(h) == CountOf(h.body, OldKinds)
newCount(h) == CountOf(h.body, NewKinds)

\* the old / new number of the first line a hunk displays (or would display)
RECURSIVE newPos(_, _)
newPos(hs, k) ==
    IF k = 1 THEN 1 + hs[1].gap
    ELSE newPos(hs, k - 1) + newCount(hs[k - 1]) + hs[k].gap

RECURSIVE oldPos(_, _)
oldPos(hs, k) ==
    IF k = 1 THEN 1 + hs[1].gap
    ELSE oldPos(hs, k - 1) + oldCount(hs[k - 1]) + hs[k].gap

\* git writes start-1 for an empty range and leaves ",count" out when it is 1
rangeStart(pos, count) == IF count = 0 THEN pos - 1 ELSE pos

renderRange(pos, count) ==
    renderNat(rangeStart(pos, count))
        \o (IF count = 1 THEN <<>> ELSE <<",">> \o renderNat(count))

oldStart(hs, k) == rangeStart(oldPos(hs, k), oldCount(hs[k]))
newStart(hs, k) == rangeStart(newPos(hs, k), newCount(hs[k]))

renderHeader(hs, k) ==
    IF hs[k].hdr = "none" THEN <<>>
    ELSE <<"@", "@", " ", "-">> \o renderRange(oldPos(hs, k), oldCount(hs[k]))
             \o <<" ", "+">> \o renderRange(newPos(hs, k), newCount(hs[k]))
             \o (IF hs[k].hdr = "ok" THEN <<" ", "@", "@">> ELSE <<>>)

RECURSIVE renderBody(_, _)
renderBody(body, j) ==
    IF j > Len(body) THEN <<>>
    ELSE <<"\n">> \o lineText(body[j]) \o renderBody(body, j + 1)

RECURSIVE renderHunks(_, _)
renderHunks(hs, k) ==
    IF k > Len(hs) THEN <<>>
    ELSE (IF k = 1 THEN <<>> ELSE <<"\n">>)
             \o renderHeader(hs, k) \o renderBody(hs[k].body, 1)
             \o renderHunks(hs, k + 1)

renderTrail(tr) ==
    CASE tr = "none" -> <<>>
      [] tr = "nl" -> <<"\n">>
      [] tr = "marker" -> <<"\n">> \o MarkerLine \o <<"\n">>

renderDiff(hs, tr) == renderHunks(hs, 1) \o renderTrail(tr)

Bodies == UNION {[1..n -> Kinds] : n \in 1..MaxLines}

\* the hunks made of the lines of `all`, a new hunk starting after each cut
hunksOf(all, cuts, gaps, bad) ==
    LET ends == cuts \cup {Len(all)}
        first(k) == IF k = 1 THEN 1
                    ELSE 1 + (CHOOSE c \in cuts :
                                 Cardinality({d \in cuts : d <= c}) = k - 1)
        last(k) == CHOOSE c \in ends : Cardinality({d \in ends : d <= c}) = k
    IN  [k \in 1..(Cardinality(cuts) + 1) |->
            [gap |-> gaps[k],
             body |-> SubSeq(all, first(k), last(k)),
             hdr |-> IF k = bad THEN "bad" ELSE "ok"]]

DiffShapes ==
    {hunksOf(all, cuts, gaps, bad) :
        <<all, cuts, gaps, bad>> \in
            {x \in Bodies \X (SUBSET (1..(MaxLines - 1)))
                      \X [1..MaxHunks -> 0..MaxGap] \X (0..MaxHunks) :
                /\ x[2] \subseteq 1..(Len(x[1]) - 1)
                /\ Cardinality(x[2]) < MaxHunks
                /\ \A k \in 2..MaxHunks : x[3][k] >= 1
                /\ \A k \in (Cardinality(x[2]) + 2)..MaxHunks : x[3][k] = 1
                /\ x[4] <= Cardinality(x[2]) + 1}}

\* the texts without any hunk header: the empty text, and lines alone
PlainShapes ==
    {<<>>} \cup {<<[gap |-> 0, body |-> b, hdr |-> "none"]>> : b \in Bodies}

newEnd(hs) ==
    IF hs = <<>> THEN 0 ELSE newPos(hs, Len(hs)) + newCount(hs[Len(hs)])

Targets(hs) == (-1)..(newEnd(hs) + 2)

\* ---------------------------------------------------- the merge request
\* What the server holds: the changed files, each [old_path, new_path, shape,
\* trail] (shape <<>> for a file GitLab gives no diff text for), and the
\* version of the head commit.  A push puts one line on top of every file.

Renamed ==
    [old_path |-> "A", new_path |-> "B", trail |-> "none",
     shape |-> <<[gap |-> 0, body |-> <<"ctx", "add">>, hdr |-> "ok"]>>]

Edited ==
    [old_path |-> "A", new_path |-> "A", trail |-> "nl",
     shape |-> <<[gap |-> 1, body |-> <<"add", "ctx">>, hdr |-> "ok"]>>]

NoText == [old_path |-> "B", new_path |-> "B", trail |-> "none", shape |-> <<>>]

ServerEntries == {Renamed, Edited, NoText}

FileLists ==
    {fs \in UNION {[1..n -> ServerEntries] : n \in 0..MaxChanges} :
        \A a, b \in 1..Len(fs) : a # b => fs[a].new_path # fs[b].new_path}

Paths == {"A", "B"}

CommentLines == {1, 3}

CommentSeqs ==
    UNION {[1..n -> [file : Paths, line : CommentLines]] : n \in 0..MaxComments}

shapeAt(shape, ver) == [shape EXCEPT ![1].gap = @ + (ver - 1)]

\* GET merge_requests/:iid/diffs answered at version ver
servedChanges(files, ver) ==
    [n \in 1..Len(files) |->
        [old_path |-> files[n].old_path,
         new_path |-> files[n].new_path,
         diff |-> IF files[n].shape = <<>> THEN <<>>
                  ELSE renderDiff(shapeAt(files[n].shape, ver), files[n].trail)]]

\* GET merge_requests/:iid answered at version ver: its diff_refs
servedRefs(ver) ==
    [base_sha |-> "base", head_sha |-> <<"head", ver>>, start_sha |-> "start"]

\* ------------------------------------------------------------------- state

VARIABLES
    \* findLineInDiff called on its own (SpecLocate)
    hunks,          \* the shape the diff text was rendered from
    trail,          \* how the diff text ends
    diffText,       \* findLineInDiff's first argument
    targetNewLine,  \* findLineInDiff's second argument
    lineInfo,       \* its result, None for null
    lpc,            \* "call" before the call, "done" after it
    \* the merge request on the server
    remoteVer,      \* how many times its head has been pushed, plus one
    remoteFiles,    \* its changed files
    \* one postDiscussion run (Spec)
    comments,       \* the comments argument
    pc,             \* where the run stands
    gets,           \* the GET requests issued so far
    mrResponse,     \* the version GET merge_requests/:iid answered with
    diffResponse,   \* the version GET merge_requests/:iid/diffs answered with
    diffRefs,       \* const diffRefs
    changes,        \* const changes
    idx,            \* the index of the comment the for loop is at
    successCount,
    fallbackCount,
    posts,          \* the POST requests issued so far, in order
    results,        \* whether each answered POST was accepted
    \* run() and autoSync (SpecRun, Spec)
    action,         \* process.argv[2], None when absent
    rawData,        \* process.argv[3], None when absent
    token,          \* whether CONFIG.token is set
    projectId,      \* the service's projectId field
    branch,         \* what getCurrentBranch last returned
    manualMrIid,    \* autoSync's second argument
    mrIid           \* the merge request the comments go to

lvars == <<hunks, trail, diffText, targetNewLine, lineInfo, lpc>>

rvars == <<remoteVer, remoteFiles>>

pvars == <<comments, pc, gets, mrResponse, diffResponse, diffRefs, changes,
           idx, successCount, fallbackCount, posts, results>>

cvars == <<action, rawData, token, projectId, branch, manualMrIid, mrIid>>

vars == <<lvars, rvars, cvars, pvars>>

\* the variables of the other specification, at rest
LocateIdle ==
    /\ hunks = <<>>
    /\ trail = "none"
    /\ diffText = <<>>
    /\ targetNewLine = 0
    /\ lineInfo = None
    /\ lpc = "idle"

CallIdle ==
    /\ action = None
    /\ rawData = None
    /\ token = TRUE
    /\ projectId = None
    /\ branch = None
    /\ manualMrIid = None
    /\ mrIid = None

PostIdle ==
    /\ CallIdle
    /\ remoteVer = 1
    /\ remoteFiles = <<>>
    /\ comments = <<>>
    /\ pc = "idle"
    /\ gets = <<>>
    /\ mrResponse = None
    /\ diffResponse = None
    /\ diffRefs = None
    /\ changes = <<>>
    /\ idx = 1
    /\ successCount = 0
    /\ fallbackCount = 0
    /\ posts = <<>>
    /\ results = <<>>

\* ---------------------------------------------------------------- SpecLocate

LocateInit ==
    /\ hunks \in DiffShapes \cup PlainShapes
    /\ trail \in Trails
    /\ diffText = renderDiff(hunks, trail)
    /\ targetNewLine \in Targets(hunks)
    /\ lineInfo = None
    /\ lpc = "call"
    /\ PostIdle

Locate ==
    /\ lpc = "call"
    /\ lineInfo' = findLineInDiff(diffText, targetNewLine)
    /\ lpc' = "done"
    /\ UNCHANGED <<hunks, trail, diffText, targetNewLine, rvars, cvars, pvars>>

LocateNext == Locate

SpecLocate == LocateInit /\ [][LocateNext]_vars

\* ------------------------------------------------ what a diff text displays

WellFormed(hs) == \A k \in 1..Len(hs) : hs[k].hdr = "ok"

before(body, j) == SubSeq(body, 1, j - 1)

\* the new number of a hunk's j-th line, which is not a removed line
newNo(hs, k, j) == newPos(hs, k) + CountOf(before(hs[k].body, j), NewKinds)

Shown(hs, k, j, t) ==
    /\ k \in 1..Len(hs)
    /\ j \in 1..Len(hs[k].body)
    /\ hs[k].body[j] \in NewKinds
    /\ newNo(hs, k, j) = t

\* the position of the j-th line of hunk k counted from the hunk's header
Expected(hs, k, j) ==
    [newLine |-> newNo(hs, k, j),
     oldLine |-> IF hs[k].body[j] = "add" THEN None
                 ELSE Some(oldStart(hs, k)
                           + CountOf(before(hs[k].body, j), OldKinds))]

lastNew(hs, k) == newPos(hs, k) + newCount(hs[k]) - 1

Located == lpc = "done"

\* ------------------------------------------------------------------- claims

C4_GapNotFound ==
    (Located /\ WellFormed(hunks)) =>
        \A k \in 1..(Len(hunks) - 1) :
            (/\ newCount(hunks[k]) >= 1
             /\ newCount(hunks[k + 1]) >= 1
             /\ targetNewLine > lastNew(hunks, k)
             /\ targetNewLine < newPos(hunks, k + 1))
                => lineInfo = None

C8_PastLastNotFound ==
    (/\ Located /\ WellFormed(hunks) /\ Len(hunks) = 1
     /\ newCount(hunks[1]) >= 1
     /\ targetNewLine > lastNew(hunks, 1))
        => lineInfo = None

\* C9: a hunk whose header line does not match the grammar is skipped: none
\* of its body lines produces a match, so a diff text whose hunks all have
\* such a header yields not-found.
C9_MalformedHunkSkipped ==
    (Located /\ \A k \in 1..Len(hunks) : hunks[k].hdr = "bad")
        => lineInfo = None

\* C10: a returned position's newLine is the requested target, for every
\* diff text and every target.
C10_NewLineIsTarget ==
    (Located /\ lineInfo # None) => lineInfo[1].newLine = targetNewLine

\* a position is returned from the second hunk of a text whose first hunk
\* has a malformed header
C10_Witness ==
    /\ Located /\ lineInfo # None
    /\ lineInfo[1].oldLine # None
    /\ Len(hunks) = 2
    /\ hunks[1].hdr = "bad"
    /\ targetNewLine >= newPos(hunks, 2)

\* ------------------------------------------------ the service's surroundings

\* the projectId the service is constructed with (GITLAB_PROJECT_ID)
ConfiguredProjects == {None, Some("group%2Fproject")}

\* getProjectId(): this.projectId when set, else the path of the git remote,
\* url-encoded, or null when git gives none
getProjectId(configured) ==
    IF configured # None THEN {configured}
    ELSE {None, Some("group%2Fproject")}

\* getCurrentBranch(): the branch name, or null on a detached HEAD or when
\* git fails
getCurrentBranch == {None, Some("feature")}

\* an MR IID given by the caller, and the one the server finds for the branch
ManualIid == Some("7")

FoundIid == Some("12")

\* ------------------------------------------------------------ postDiscussion

\* const fileLineUrl = `${mrWebUrl}/-/blob/${diffRefs.head_sha}/${comment.file}#L${comment.line}`
fileLineUrl(refs, comment) ==
    [head_sha |-> refs.head_sha, file |-> comment.file, line |-> comment.line]

\* changes.find(c => c.new_path === comment.file || c.old_path === comment.file)
findChange(cs, file) ==
    LET hits == {n \in 1..Len(cs) :
                    cs[n].new_path = file \/ cs[n].old_path = file}
    IN  IF hits = {} THEN None
        ELSE Some(cs[CHOOSE n \in hits : \A m \in hits : n <= m])

\* the position built from refs read again from the server
positionOf_refetch(refs, fileChange, info) ==
    [base_sha |-> servedRefs(remoteVer).base_sha,
     head_sha |-> servedRefs(remoteVer).head_sha,
     start_sha |-> servedRefs(remoteVer).start_sha,
     new_path |-> fileChange.new_path,
     old_path |-> fileChange.old_path,
     position_type |-> "text",
     new_line |-> info.newLine,
     old_line |-> info.oldLine]

\* positionData = { base_sha: ..., ..., old_line: lineInfo.oldLine }
positionOf(refs, fileChange, info) ==
    [base_sha |-> refs.base_sha,
     head_sha |-> refs.head_sha,
     start_sha |-> refs.start_sha,
     new_path |-> fileChange.new_path,
     old_path |-> fileChange.old_path,
     position_type |-> "text",
     new_line |-> info.newLine,
     old_line |-> info.oldLine]

\* let positionData = null; if (fileChange && fileChange.diff) { ... }
positionData(refs, cs, comment) ==
    LET fileChange == findChange(cs, comment.file)
    IN  IF fileChange # None /\ fileChange[1].diff # <<>>
        THEN LET info == findLineInDiff(fileChange[1].diff, comment.line)
             IN  IF info # None
                 THEN Some(positionOf(refs, fileChange[1], info[1]))
                 ELSE None
        ELSE None

\* formatMessage(c, fileLineUrl, isFallback): the fallback message starts
\* with the link to the file and ends with the outside-the-diff remark
formatMessage(c, url, isFallback) ==
    [issue |-> c,
     link |-> IF isFallback THEN Some(url) ELSE None,
     outsideDiff |-> isFallback]

\* axios.post(discussionUrl, { body, position: positionData }, ...)
discussionPost(n, refs, comment, pd) ==
    [kind |-> "discussion", comment |-> n,
     body |-> Some(formatMessage(comment, fileLineUrl(refs, comment), FALSE)),
     position |-> Some(pd), counts |-> None]

\* postFallbackNote: axios.post(fallbackUrl, { body }, ...)
notePost(n, refs, comment) ==
    [kind |-> "note", comment |-> n,
     body |-> Some(formatMessage(comment, fileLineUrl(refs, comment), TRUE)),
     position |-> None, counts |-> None]

\* postSummary: axios.post(noteUrl, { body }, ...)
summaryPost(success, fallback, total) ==
    [kind |-> "summary", comment |-> 0, body |-> None, position |-> None,
     counts |-> Some([total |-> total, success |-> success,
                      fallback |-> fallback])]

\* autoSync(comments, manualMrIid) called on a service built with or
\* without a project id
Init ==
    /\ LocateIdle
    /\ action = None
    /\ rawData = None
    /\ token = TRUE
    /\ projectId \in ConfiguredProjects
    /\ branch = None
    /\ manualMrIid \in {None, ManualIid}
    /\ mrIid = None
    /\ remoteVer = 1
    /\ remoteFiles \in FileLists
    /\ comments \in CommentSeqs
    /\ pc = "autoSync"
    /\ gets = <<>>
    /\ mrResponse = None
    /\ diffResponse = None
    /\ diffRefs = None
    /\ changes = <<>>
    /\ idx = 1
    /\ successCount = 0
    /\ fallbackCount = 0
    /\ posts = <<>>
    /\ results = <<>>

\* getProjectId() finds no project: console.error, return
AutoSyncNoProject ==
    /\ pc = "autoSync"
    /\ None \in getProjectId(projectId)
    /\ pc' = "returned"
    /\ UNCHANGED <<lvars, rvars, cvars, comments, gets, mrResponse,
                   diffResponse, diffRefs, changes, idx, successCount,
                   fallbackCount, posts, results>>

\* let mrIid = manualMrIid, which is given: postDiscussion is called
AutoSyncManual ==
    /\ pc = "autoSync"
    /\ manualMrIid # None
    /\ \E p \in getProjectId(projectId) \ {None} : projectId' = p
    /\ mrIid' = manualMrIid
    /\ pc' = "start"
    /\ UNCHANGED <<lvars, rvars, action, rawData, token, branch, manualMrIid,
                   comments, gets, mrResponse, diffResponse, diffRefs, changes,
                   idx, successCount, fallbackCount, posts, results>>

\* no manual IID and getCurrentBranch() returns null: getMrIidByBranch
\* returns null without a request, autoSync returns
AutoSyncNoBranch ==
    /\ pc = "autoSync"
    /\ manualMrIid = None
    /\ \E p \in getProjectId(projectId) \ {None} : projectId' = p
    /\ None \in getCurrentBranch
    /\ branch' = None
    /\ pc' = "returned"
    /\ UNCHANGED <<lvars, rvars, action, rawData, token, manualMrIid, mrIid,
                   comments, gets, mrResponse, diffResponse, diffRefs, changes,
                   idx, successCount, fallbackCount, posts, results>>

\* no manual IID: the open merge requests of the current branch are asked for
AutoSyncLookup ==
    /\ pc = "autoSync"
    /\ manualMrIid = None
    /\ \E p \in getProjectId(projectId) \ {None} : projectId' = p
    /\ \E b \in getCurrentBranch \ {None} : branch' = b
    /\ gets' = Append(gets, "lookup")
    /\ pc' = "lookup"
    /\ UNCHANGED <<lvars, rvars, action, rawData, token, manualMrIid, mrIid,
                   comments, mrResponse, diffResponse, diffRefs, changes, idx,
                   successCount, fallbackCount, posts, results>>

\* response.data[0].iid
LookupFound ==
    /\ pc = "lookup"
    /\ mrIid' = FoundIid
    /\ pc' = "start"
    /\ UNCHANGED <<lvars, rvars, action, rawData, token, projectId, branch,
                   manualMrIid, comments, gets, mrResponse, diffResponse,
                   diffRefs, changes, idx, successCount, fallbackCount, posts,
                   results>>

\* the comments are posted although no merge request was found
LookupEmpty_proceed ==
    /\ pc = "lookup"
    /\ pc' = "start"
    /\ UNCHANGED <<lvars, rvars, cvars, comments, gets, mrResponse,
                   diffResponse, diffRefs, changes, idx, successCount,
                   fallbackCount, posts, results>>

\* no open merge request, or the request failed: getMrIidByBranch returns
\* null and autoSync returns
LookupEmpty ==
    /\ pc = "lookup"
    /\ pc' = "returned"
    /\ UNCHANGED <<lvars, rvars, cvars, comments, gets, mrResponse,
                   diffResponse, diffRefs, changes, idx, successCount,
                   fallbackCount, posts, results>>

\* someone pushes to the merge request's branch
Push ==
    /\ pc \in {"start", "fetch", "loop", "positional", "fallback", "summary"}
    /\ remoteVer <= MaxPushes
    /\ remoteVer' = remoteVer + 1
    /\ UNCHANGED <<lvars, remoteFiles, cvars, pvars>>

\* Promise.all([axios.get(mrUrl, ...), axios.get(diffUrl, ...)])
Start ==
    /\ pc = "start"
    /\ pc' = "fetch"
    /\ gets' = gets \o <<"mr", "diff">>
    /\ UNCHANGED <<lvars, rvars, cvars, comments, mrResponse, diffResponse, diffRefs,
                   changes, idx, successCount, fallbackCount, posts, results>>

MrResponds ==
    /\ pc = "fetch"
    /\ mrResponse = None
    /\ mrResponse' = Some(remoteVer)
    /\ UNCHANGED <<lvars, rvars, cvars, comments, pc, gets, diffResponse, diffRefs,
                   changes, idx, successCount, fallbackCount, posts, results>>

DiffResponds ==
    /\ pc = "fetch"
    /\ diffResponse = None
    /\ diffResponse' = Some(remoteVer)
    /\ UNCHANGED <<lvars, rvars, cvars, comments, pc, gets, mrResponse, diffRefs,
                   changes, idx, successCount, fallbackCount, posts, results>>

\* one of the two requests is rejected: catch (error) { console.error(...) }
FetchFails ==
    /\ pc = "fetch"
    /\ mrResponse = None \/ diffResponse = None
    /\ pc' = "fatal"
    /\ UNCHANGED <<lvars, rvars, cvars, comments, gets, mrResponse, diffResponse,
                   diffRefs, changes, idx, successCount, fallbackCount, posts,
                   results>>

\* both answered: diffRefs, changes, the two counters
Resume ==
    /\ pc = "fetch"
    /\ mrResponse # None
    /\ diffResponse # None
    /\ diffRefs' = Some(servedRefs(mrResponse[1]))
    /\ changes' = servedChanges(remoteFiles, diffResponse[1])
    /\ successCount' = 0
    /\ fallbackCount' = 0
    /\ idx' = 1
    /\ pc' = "loop"
    /\ UNCHANGED <<lvars, rvars, cvars, comments, gets, mrResponse, diffResponse,
                   posts, results>>

\* the next comment has position data: the positional post is sent
DispatchPositional ==
    /\ pc = "loop"
    /\ idx <= Len(comments)
    /\ LET pd == positionData(diffRefs[1], changes, comments[idx])
       IN  /\ pd # None
           /\ posts' = Append(posts, discussionPost(idx, diffRefs[1],
                                                    comments[idx], pd[1]))
    /\ pc' = "positional"
    /\ UNCHANGED <<lvars, rvars, cvars, comments, gets, mrResponse, diffResponse,
                   diffRefs, changes, idx, successCount, fallbackCount,
                   results>>

\* the next comment has none: the fallback note is sent
DispatchFallback ==
    /\ pc = "loop"
    /\ idx <= Len(comments)
    /\ positionData(diffRefs[1], changes, comments[idx]) = None
    /\ posts' = Append(posts, notePost(idx, diffRefs[1], comments[idx]))
    /\ pc' = "fallback"
    /\ UNCHANGED <<lvars, rvars, cvars, comments, gets, mrResponse, diffResponse,
                   diffRefs, changes, idx, successCount, fallbackCount,
                   results>>

\* successCount++; continue
PositionalAccepted ==
    /\ pc = "positional"
    /\ results' = Append(results, TRUE)
    /\ successCount' = successCount + 1
    /\ idx' = idx + 1
    /\ pc' = "loop"
    /\ UNCHANGED <<lvars, rvars, cvars, comments, gets, mrResponse, diffResponse,
                   diffRefs, changes, fallbackCount, posts>>

\* the rejection ends the comment's turn, no fallback note sent
PositionalRejected_skip ==
    /\ pc = "positional"
    /\ results' = Append(results, FALSE)
    /\ idx' = idx + 1
    /\ pc' = "loop"
    /\ UNCHANGED <<lvars, rvars, cvars, comments, gets, mrResponse, diffResponse,
                   diffRefs, changes, successCount, fallbackCount, posts>>

\* catch (error) { console.warn(...) }, then the fallback note is sent
PositionalRejected ==
    /\ pc = "positional"
    /\ results' = Append(results, FALSE)
    /\ posts' = Append(posts, notePost(idx, diffRefs[1], comments[idx]))
    /\ pc' = "fallback"
    /\ UNCHANGED <<lvars, rvars, cvars, comments, gets, mrResponse, diffResponse,
                   diffRefs, changes, idx, successCount, fallbackCount>>

\* the fallback counter moved before the outcome is known
FallbackAccepted_uncounted ==
    /\ pc = "fallback"
    /\ results' = Append(results, TRUE)
    /\ idx' = idx + 1
    /\ pc' = "loop"
    /\ UNCHANGED <<lvars, rvars, cvars, comments, gets, mrResponse, diffResponse,
                   diffRefs, changes, successCount, fallbackCount, posts>>

\* postFallbackNote returned true: fallbackCount++
FallbackAccepted ==
    /\ pc = "fallback"
    /\ results' = Append(results, TRUE)
    /\ fallbackCount' = fallbackCount + 1
    /\ idx' = idx + 1
    /\ pc' = "loop"
    /\ UNCHANGED <<lvars, rvars, cvars, comments, gets, mrResponse, diffResponse,
                   diffRefs, changes, successCount, posts>>

\* the failed fallback post is thrown on to the outer catch
FallbackRejected_abort ==
    /\ pc = "fallback"
    /\ results' = Append(results, FALSE)
    /\ pc' = "fatal"
    /\ UNCHANGED <<lvars, rvars, cvars, comments, gets, mrResponse, diffResponse,
                   diffRefs, changes, idx, successCount, fallbackCount, posts>>

\* postFallbackNote returned false
FallbackRejected ==
    /\ pc = "fallback"
    /\ results' = Append(results, FALSE)
    /\ idx' = idx + 1
    /\ pc' = "loop"
    /\ UNCHANGED <<lvars, rvars, cvars, comments, gets, mrResponse, diffResponse,
                   diffRefs, changes, successCount, fallbackCount, posts>>

\* after the loop: await this.postSummary(...)
PostSummary ==
    /\ pc = "loop"
    /\ idx > Len(comments)
    /\ posts' = Append(posts, summaryPost(successCount, fallbackCount,
                                          Len(comments)))
    /\ pc' = "summary"
    /\ UNCHANGED <<lvars, rvars, cvars, comments, gets, mrResponse, diffResponse,
                   diffRefs, changes, idx, successCount, fallbackCount,
                   results>>

\* the summary post is answered, accepted or not (postSummary catches)
SummaryAnswered ==
    /\ pc = "summary"
    /\ \E ok \in BOOLEAN : results' = Append(results, ok)
    /\ pc' = "done"
    /\ UNCHANGED <<lvars, rvars, cvars, comments, gets, mrResponse, diffResponse,
                   diffRefs, changes, idx, successCount, fallbackCount, posts>>

Next ==
    \/ AutoSyncNoProject
    \/ AutoSyncManual
    \/ AutoSyncNoBranch
    \/ AutoSyncLookup
    \/ LookupFound
    \/ LookupEmpty
    \/ Push
    \/ Start
    \/ MrResponds
    \/ DiffResponds
    \/ FetchFails
    \/ Resume
    \/ DispatchPositional
    \/ DispatchFallback
    \/ PositionalAccepted
    \/ PositionalRejected
    \/ FallbackAccepted
    \/ FallbackRejected
    \/ PostSummary
    \/ SummaryAnswered

Spec == Init /\ [][Next]_vars

\* ----------------------------------------------------------------- run.mjs

\* process.argv[2]: absent, empty, or one of the words the script knows, or
\* anything else (an MR IID)
Actions ==
    {None, Some(""), Some("auto"), Some("info"), Some("changes"), ManualIid}

\* process.argv[3]: absent, JSON text, the name of a .json file, text that is
\* no JSON, or the name of a .json file that cannot be read or parsed
RawComments == {cs \in CommentSeqs : Len(cs) <= 1}

RawDatas ==
    {None}
        \cup {Some([kind |-> k, comments |-> cs]) :
                 k \in {"json", "file"}, cs \in RawComments}
        \cup {Some([kind |-> k, comments |-> <<>>]) : k \in {"garbage", "nofile"}}

\* !action
notAction(a) == a = None \/ a = Some("")

\* the comments read from rawData: let comments = []; if (rawData) { ... }
parseComments(raw) == IF raw = None THEN <<>> ELSE raw[1].comments

\* whether reading rawData throws
parseThrows(raw) == raw # None /\ raw[1].kind \in {"garbage", "nofile"}

\* if (!rawData && action !== 'auto') throw new Error('Usage: ...')
usageError(a, raw) == raw = None /\ a # Some("auto")

\* (action === 'auto' || !action) ? null : action
targetMrIid(a) == IF a = Some("auto") \/ notAction(a) THEN None ELSE a

RunInit ==
    /\ LocateIdle
    /\ action \in Actions
    /\ rawData \in RawDatas
    /\ action = None => rawData = None
    /\ token \in BOOLEAN
    /\ projectId \in ConfiguredProjects
    /\ branch = None
    /\ manualMrIid = None
    /\ mrIid = None
    /\ remoteVer = 1
    /\ remoteFiles = <<>>
    /\ comments = <<>>
    /\ pc = "run"
    /\ gets = <<>>
    /\ mrResponse = None
    /\ diffResponse = None
    /\ diffRefs = None
    /\ changes = <<>>
    /\ idx = 1
    /\ successCount = 0
    /\ fallbackCount = 0
    /\ posts = <<>>
    /\ results = <<>>

\* const branch = service.getCurrentBranch(); const projectId =
\* service.getProjectId(); service.projectId = projectId
runReads ==
    /\ pc = "run"
    /\ token
    /\ branch' \in getCurrentBranch
    /\ projectId' \in getProjectId(projectId)

\* if (!CONFIG.token) throw
RunNoToken ==
    /\ pc = "run"
    /\ ~token
    /\ pc' = "thrown"
    /\ UNCHANGED <<lvars, rvars, cvars, comments, gets, mrResponse,
                   diffResponse, diffRefs, changes, idx, successCount,
                   fallbackCount, posts, results>>

\* action === 'info': the MR of the branch is looked up when there is a branch
RunInfo ==
    /\ runReads
    /\ action = Some("info")
    /\ IF branch' # None
       THEN pc' = "infoLookup" /\ gets' = Append(gets, "lookup")
       ELSE pc' = "exit" /\ gets' = gets
    /\ UNCHANGED <<lvars, rvars, action, rawData, token, manualMrIid, mrIid,
                   comments, mrResponse, diffResponse, diffRefs, changes, idx,
                   successCount, fallbackCount, posts, results>>

\* the lookup is answered, the MR line is written, run returns
InfoAnswered ==
    /\ pc = "infoLookup"
    /\ pc' = "exit"
    /\ UNCHANGED <<lvars, rvars, cvars, comments, gets, mrResponse,
                   diffResponse, diffRefs, changes, idx, successCount,
                   fallbackCount, posts, results>>

\* action === 'changes': rawData || (branch ? await getMrIidByBranch(branch)
\* : null)
RunChanges ==
    /\ runReads
    /\ action = Some("changes")
    /\ IF rawData # None
       THEN pc' = "changesFetch" /\ gets' = Append(gets, "changes")
       ELSE IF branch' # None
            THEN pc' = "changesLookup" /\ gets' = Append(gets, "lookup")
            ELSE pc' = "exit" /\ gets' = gets
    /\ UNCHANGED <<lvars, rvars, action, rawData, token, manualMrIid, mrIid,
                   comments, mrResponse, diffResponse, diffRefs, changes, idx,
                   successCount, fallbackCount, posts, results>>

\* the lookup found an MR: getMrChanges(targetMrIid)
ChangesLookupFound ==
    /\ pc = "changesLookup"
    /\ pc' = "changesFetch"
    /\ gets' = Append(gets, "changes")
    /\ UNCHANGED <<lvars, rvars, cvars, comments, mrResponse, diffResponse,
                   diffRefs, changes, idx, successCount, fallbackCount, posts,
                   results>>

\* the lookup found none or failed: console.error, return
ChangesLookupEmpty ==
    /\ pc = "changesLookup"
    /\ pc' = "exit"
    /\ UNCHANGED <<lvars, rvars, cvars, comments, gets, mrResponse,
                   diffResponse, diffRefs, changes, idx, successCount,
                   fallbackCount, posts, results>>

\* getMrChanges answered (or failed, giving []): the files are listed
ChangesAnswered ==
    /\ pc = "changesFetch"
    /\ pc' = "exit"
    /\ UNCHANGED <<lvars, rvars, cvars, comments, gets, mrResponse,
                   diffResponse, diffRefs, changes, idx, successCount,
                   fallbackCount, posts, results>>

\* throw new Error('Usage: ...')
RunUsage ==
    /\ runReads
    /\ action \notin {Some("info"), Some("changes")}
    /\ usageError(action, rawData)
    /\ pc' = "thrown"
    /\ UNCHANGED <<lvars, rvars, action, rawData, token, manualMrIid, mrIid,
                   comments, gets, mrResponse, diffResponse, diffRefs, changes,
                   idx, successCount, fallbackCount, posts, results>>

\* readFileSync or JSON.parse throws
RunParseFails ==
    /\ runReads
    /\ action \notin {Some("info"), Some("changes")}
    /\ ~usageError(action, rawData)
    /\ parseThrows(rawData)
    /\ pc' = "thrown"
    /\ UNCHANGED <<lvars, rvars, action, rawData, token, manualMrIid, mrIid,
                   comments, gets, mrResponse, diffResponse, diffRefs, changes,
                   idx, successCount, fallbackCount, posts, results>>

\* await service.autoSync(comments, targetMrIid)
RunAutoSync ==
    /\ runReads
    /\ action \notin {Some("info"), Some("changes")}
    /\ ~usageError(action, rawData)
    /\ ~parseThrows(rawData)
    /\ comments' = parseComments(rawData)
    /\ manualMrIid' = targetMrIid(action)
    /\ pc' = "autoSync"
    /\ UNCHANGED <<lvars, rvars, action, rawData, token, mrIid, gets,
                   mrResponse, diffResponse, diffRefs, changes, idx,
                   successCount, fallbackCount, posts, results>>

\* run() up to autoSync's call of postDiscussion
RunNext ==
    \/ RunNoToken
    \/ RunInfo
    \/ InfoAnswered
    \/ RunChanges
    \/ ChangesLookupFound
    \/ ChangesLookupEmpty
    \/ ChangesAnswered
    \/ RunUsage
    \/ RunParseFails
    \/ RunAutoSync
    \/ AutoSyncNoProject
    \/ AutoSyncManual
    \/ AutoSyncNoBranch
    \/ AutoSyncLookup
    \/ LookupFound
    \/ LookupEmpty

SpecRun == RunInit /\ [][RunNext]_vars

\* ------------------------------------------------- claims on postDiscussion

PostsOf(n, kind) ==
    {q \in 1..Len(posts) : posts[q].comment = n /\ posts[q].kind = kind}

\* the for loop has decided how comment n goes out
Dispatched(n) ==
    /\ pc \in {"loop", "positional", "fallback", "summary", "done"}
    /\ n < idx \/ (n = idx /\ pc \in {"positional", "fallback"})

\* the changed file of a comment as the dispatch policy names it: the entry
\* with that new path, else the first entry with that old path
FileOf(file) ==
    LET byNew == {n \in 1..Len(changes) : changes[n].new_path = file}
        byOld == {n \in 1..Len(changes) : changes[n].old_path = file}
        least(S) == CHOOSE n \in S : \A m \in S : n <= m
    IN  IF byNew # {} THEN Some(changes[least(byNew)])
        ELSE IF byOld # {} THEN Some(changes[least(byOld)])
        ELSE None

\* the comment's file is in the changed set with diff text in which
\* findLineInDiff finds the comment's line
Locatable(comment) ==
    /\ FileOf(comment.file) # None
    /\ FileOf(comment.file)[1].diff # <<>>
    /\ findLineInDiff(FileOf(comment.file)[1].diff, comment.line) # None

IsFallbackNote(post, n) ==
    /\ post.kind = "note"
    /\ post.comment = n
    /\ post.body = Some([issue |-> comments[n],
                         link |-> Some([head_sha |-> diffRefs[1].head_sha,
                                        file |-> comments[n].file,
                                        line |-> comments[n].line]),
                         outsideDiff |-> TRUE])

\* C2: a positional post is attempted for a comment if and only if a changed
\* file matching its file exists with diff text in which findLineInDiff
\* finds its line; otherwise no positional post is attempted and the
\* fallback note with the deep link and the outside-the-diff remark is sent.
C2_PositionalIffLocatable ==
    \A n \in 1..Len(comments) :
        Dispatched(n) =>
            /\ (PostsOf(n, "discussion") # {}) <=> Locatable(comments[n])
            /\ PostsOf(n, "discussion") = {}
                   => \E q \in PostsOf(n, "note") : IsFallbackNote(posts[q], n)

\* C3: a rejected positional post is followed at once by the fallback note of
\* the same comment; the run is not aborted, and once the loop is over every
\* comment has been attempted.
C3_RejectedDegrades ==
    /\ \A q \in 1..Len(results) :
        (posts[q].kind = "discussion" /\ ~results[q])
            => /\ Len(posts) > q
               /\ IsFallbackNote(posts[q + 1], posts[q].comment)
               /\ pc # "fatal"
    /\ pc \in {"summary", "done"}
           => \A n \in 1..Len(comments) :
                  PostsOf(n, "discussion") \cup PostsOf(n, "note") # {}

\* the first comment's positional post was rejected, its fallback note went
\* out and the second comment has been attempted
C3_Witness ==
    /\ Len(posts) >= 3
    /\ posts[1].kind = "discussion"
    /\ results[1] = FALSE
    /\ posts[2].kind = "note" /\ posts[2].comment = 1
    /\ posts[3].comment = 2

RefsOf(position) ==
    <<position.base_sha, position.head_sha, position.start_sha>>

\* C5: the merge request is fetched once, and every positional post of the
\* run carries the diff refs that one fetch returned, whatever happened
\* before it.
C5_OneRefsSnapshot ==
    /\ Cardinality({g \in 1..Len(gets) : gets[g] = "mr"}) <= 1
    /\ \A q \in 1..Len(posts) :
        posts[q].kind = "discussion"
            => /\ mrResponse # None
               /\ RefsOf(posts[q].position[1])
                      = RefsOf(servedRefs(mrResponse[1]))
               /\ \A r \in 1..Len(posts) :
                      posts[r].kind = "discussion"
                          => RefsOf(posts[r].position[1])
                                 = RefsOf(posts[q].position[1])

\* a second positional post goes out after a rejected first one and after a
\* push to the merge request
C5_Witness ==
    /\ Len(posts) >= 3
    /\ posts[1].kind = "discussion"
    /\ results[1] = FALSE
    /\ posts[3].kind = "discussion"
    /\ remoteVer > mrResponse[1]

\* C6: when an entry of the changed set has new_path = comment.file, that
\* entry is the one the position is built from, wherever in the list an
\* entry with old_path = comment.file stands.
C6_NewPathFirst ==
    \A q \in 1..Len(posts) :
        (/\ posts[q].kind = "discussion"
         /\ \E n \in 1..Len(changes) :
                changes[n].new_path = comments[posts[q].comment].file)
            => posts[q].position[1].new_path = comments[posts[q].comment].file

Attempted(n) ==
    \E q \in 1..Len(posts) :
        posts[q].comment = n /\ posts[q].kind \in {"discussion", "note"}

\* C11: comments go out one at a time in input order, each attempted once
\* (a post is for a later comment than the post before it, or is the
\* fallback note of the same comment, whose positional post was rejected, so
\* one positional post and one note at most); no failed post keeps a
\* later comment from being attempted or changes how it goes out: whenever a
\* post has just been sent, its comment went out positionally first exactly
\* when the fetched data give it a position.
C11_EveryCommentOnce ==
    /\ \A r \in 2..Len(posts) :
        posts[r].kind # "summary" =>
            /\ posts[r - 1].kind # "summary"
            /\ \/ posts[r - 1].comment < posts[r].comment
               \/ /\ posts[r - 1].comment = posts[r].comment
                  /\ posts[r - 1].kind = "discussion"
                  /\ posts[r].kind = "note"
                  /\ results[r - 1] = FALSE
    /\ \A n \in 1..Len(comments) : Dispatched(n) => Attempted(n)
    /\ pc \in {"positional", "fallback"} =>
           LET n == posts[Len(posts)].comment
           IN  (PostsOf(n, "discussion") # {})
                   <=> positionData(diffRefs[1], changes, comments[n]) # None
    /\ pc = "fatal" => posts = <<>>
    /\ pc \in {"summary", "done"}
           => \A n \in 1..Len(comments) : Attempted(n)

\* both posts of the first comment failed and the second comment went out
C11_Witness ==
    /\ Len(results) >= 2 /\ Len(posts) >= 3
    /\ posts[1].kind = "discussion" /\ results[1] = FALSE
    /\ posts[2].kind = "note" /\ results[2] = FALSE
    /\ posts[3].comment = 2

Accepted(n, kind) ==
    \E q \in PostsOf(n, kind) : q <= Len(results) /\ results[q]

Summaries == {q \in 1..Len(posts) : posts[q].kind = "summary"}

\* C16: once the fetch succeeded one summary note goes out, after the last
\* comment; it carries successCount = the comments whose positional post was
\* accepted, fallbackCount = those whose fallback note was accepted, no
\* comment in both, and their sum <= total = the number of comments, equal
\* exactly when no comment failed both posts.
C16_SummaryCounts ==
    LET pos == {n \in 1..Len(comments) : Accepted(n, "discussion")}
        fb  == {n \in 1..Len(comments) : Accepted(n, "note")}
    IN  /\ Cardinality(Summaries) <= 1
        /\ pc \notin {"summary", "done"} => Summaries = {}
        /\ pc \in {"summary", "done"} =>
            /\ Summaries = {Len(posts)}
            /\ \A n \in 1..Len(comments) : Attempted(n)
            /\ posts[Len(posts)].counts
                   = Some([total |-> Len(comments),
                           success |-> Cardinality(pos),
                           fallback |-> Cardinality(fb)])
            /\ pos \cap fb = {}
            /\ Cardinality(pos) + Cardinality(fb) <= Len(comments)
            /\ (Cardinality(pos) + Cardinality(fb) = Len(comments))
                   <=> \A n \in 1..Len(comments) : n \in pos \cup fb

\* the summary of a run with one positional comment, and one comment that
\* failed both posts
C16_Witness ==
    /\ pc = "done"
    /\ Len(comments) = 2
    /\ posts[Len(posts)].counts
           = Some([total |-> 2, success |-> 1, fallback |-> 0])
    /\ Len(posts) = 4

\* C17: the diff hunks the lines are located in and the diff refs sent with
\* each positional post describe the same head commit, whenever the branch
\* is pushed to.
C17_HunksMatchRefs ==
    \A q \in 1..Len(posts) :
        posts[q].kind = "discussion" => diffResponse = mrResponse

\* C12: every target line <= 0 is not found, whatever the diff text, the
\* diff of a deleted file (header new start 0) included.
C12_NonPositiveNotFound ==
    (Located /\ targetNewLine <= 0) => lineInfo = None

HeaderLess(hs) == \A k \in 1..Len(hs) : hs[k].hdr = "none"

IsLineInfo(r) ==
    \/ r = None
    \/ /\ Len(r) = 1
       /\ DOMAIN r[1] = {"oldLine", "newLine"}
       /\ r[1].newLine \in Int
       /\ \/ r[1].oldLine = None
          \/ Len(r[1].oldLine) = 1 /\ r[1].oldLine[1] \in Int

\* C13: findLineInDiff is total: for the empty text, a text without a hunk
\* header, texts with malformed headers and any body lines, and every
\* integer target, it ends with a position or with not-found; the empty text
\* and a text without a hunk header give not-found.
C13_Total ==
    Located =>
        /\ IsLineInfo(lineInfo)
        /\ diffText = <<>> => lineInfo = None
        /\ HeaderLess(hunks) => lineInfo = None

\* not-found for a text without a hunk header one of whose lines quotes a
\* header, the target being the quoted new start
C13_Witness ==
    /\ Located /\ hunks # <<>> /\ HeaderLess(hunks)
    /\ hunks[1].body[1] = "quo"
    /\ targetNewLine = 2
    /\ lineInfo = None

\* the walk of a hunk's lines that never leaves the hunk early
RECURSIVE walkWhole(_, _, _)
walkWhole(lines, c, t) ==
    IF lines = <<>> THEN None
    ELSE LET line == Head(lines)
             removed == startsWith(line, "-")
             added == ~removed /\ startsWith(line, "+")
         IN  IF ~removed /\ c.newLine = t
             THEN Some(IF added THEN addedPosition(c) ELSE contextPosition(c))
             ELSE walkWhole(Tail(lines),
                            IF removed THEN onRemoved(c)
                            ELSE IF added THEN onAdded(c) ELSE onContext(c),
                            t)

RECURSIVE scanWhole(_, _)
scanWhole(hs, t) ==
    IF hs = <<>> THEN None
    ELSE LET m == headerMatch(Head(hs))
             r == IF m = None THEN None
                  ELSE walkWhole(hunkLines(Head(hs)), startCounters(m[1]), t)
         IN  IF r # None THEN r ELSE scanWhole(Tail(hs), t)

\* C15: leaving a hunk once newLine has passed the target changes no result:
\* for every diff text and target the search returns what the search that
\* walks every hunk to its end returns.
C15_EarlyExitSameResult ==
    Located =>
        lineInfo = (IF diffText = <<>> THEN None
                    ELSE scanWhole(sliceOne(splitHunks(diffText)),
                                   targetNewLine))

\* the target lies in front of the first hunk, which is left after its first
\* line with a line still unread
C15_Witness ==
    /\ Located /\ WellFormed(hunks) /\ hunks # <<>>
    /\ Len(hunks[1].body) >= 2
    /\ hunks[1].body[1] = "ctx"
    /\ targetNewLine >= 1
    /\ targetNewLine < newStart(hunks, 1)
    /\ lineInfo = None

\* the counters after the first n lines of a hunk were walked without a match
RECURSIVE countersAt(_, _, _)
countersAt(lines, c, n) ==
    IF n = 0 THEN c
    ELSE LET b == countersAt(lines, c, n - 1)
         IN  IF startsWith(lines[n], "-") THEN onRemoved(b)
             ELSE IF startsWith(lines[n], "+") THEN onAdded(b)
             ELSE onContext(b)

\* the old number of a hunk's j-th line, which is not an added line
oldNo(hs, k, j) == oldStart(hs, k) + CountOf(before(hs[k].body, j), OldKinds)

\* the first line of hunk k after line j that is not a removed line, if any
nextKept(hs, k, j) ==
    LET later == {i \in (j + 1)..Len(hs[k].body) : hs[k].body[i] \in NewKinds}
    IN  IF later = {} THEN 0
        ELSE CHOOSE i \in later : \A i2 \in later : i <= i2

\* C19: in the walk of a hunk the counters start at the header's (old start,
\* new start); a removed line moves oldLine only, an added line newLine
\* only, any other line both, so each line moves a counter; the walk's
\* result never carries the old number of a removed line, and a target equal
\* to newLine at a removed line is matched at the hunk's next line that is
\* not removed.
C19_CountersFollowLines ==
    (Located /\ WellFormed(hunks) /\ hunks # <<>>) =>
        LET parsed == sliceOne(splitHunks(diffText))
        IN  \A k \in 1..Len(hunks) :
            LET body == hunks[k].body
                lines == hunkLines(parsed[k])
                c0 == startCounters(headerMatch(parsed[k])[1])
                r == walkLines(lines, c0, targetNewLine)
            IN  /\ c0 = [oldLine |-> oldStart(hunks, k),
                         newLine |-> newStart(hunks, k)]
                /\ \A j \in 1..Len(body) :
                    LET c == countersAt(lines, c0, j - 1)
                        d == countersAt(lines, c0, j)
                    IN  /\ d.oldLine = c.oldLine
                               + (IF body[j] \in OldKinds THEN 1 ELSE 0)
                        /\ d.newLine = c.newLine
                               + (IF body[j] \in NewKinds THEN 1 ELSE 0)
                        /\ d.oldLine + d.newLine > c.oldLine + c.newLine
                        /\ (body[j] = "del" /\ r # None /\ r[1].oldLine # None)
                               => r[1].oldLine[1] # oldNo(hunks, k, j)
                        /\ (/\ body[j] = "del"
                            /\ c.newLine = targetNewLine
                            /\ nextKept(hunks, k, j) # 0)
                               => /\ r = Some(Expected(hunks, k,
                                                       nextKept(hunks, k, j)))
                                  /\ k = 1 => lineInfo = r

\* the target is the new start of a hunk that opens with a removed line: the
\* context line after it is returned, its old number one past the old start
C19_Witness ==
    /\ Located /\ WellFormed(hunks) /\ hunks # <<>>
    /\ hunks[1].body = <<"del", "ctx">>
    /\ targetNewLine = newStart(hunks, 1)
    /\ lineInfo = Some([oldLine |-> Some(oldStart(hunks, 1) + 1),
                        newLine |-> targetNewLine])

\* C18: nothing is posted (no discussion, no fallback note, no summary) unless
\* the target was established: autoSync returns without a post when no
\* project id can be determined, or when no MR IID is given and none is found
\* for the current branch; postDiscussion posts nothing when the fetch of the
\* MR details and the diffs fails.
C18_NoTargetNoPost ==
    /\ pc \in {"autoSync", "lookup", "returned", "start", "fetch", "fatal"}
           => posts = <<>>
    /\ posts # <<>> =>
           /\ projectId # None
           /\ mrIid # None
           /\ manualMrIid # None => mrIid = manualMrIid
           /\ mrResponse # None /\ diffResponse # None
    /\ pc = "returned" =>
           \/ projectId = None
           \/ manualMrIid = None /\ mrIid = None
    /\ pc = "fatal" => mrResponse = None \/ diffResponse = None

\* comments were handed over and the lookup for the branch was made, no open
\* merge request came back: autoSync has returned and nothing was posted
C18_Witness ==
    /\ pc = "returned"
    /\ comments # <<>>
    /\ branch # None
    /\ gets = <<"lookup">>
    /\ posts = <<>>

Lookups == {g \in 1..Len(gets) : gets[g] = "lookup"}

InAutoSync == pc \in {"autoSync", "lookup", "returned", "start"}

\* C14: with action 'auto' or no action, run() reaches autoSync without a
\* manual MR IID (the MR is then looked up by branch); with any other action
\* that is not 'info' or 'changes', and comment data given, autoSync gets the
\* action as the MR IID and no lookup by branch is made.
C14_ActionSelectsTarget ==
    /\ (/\ action = Some("auto") \/ notAction(action)
        /\ token
        /\ ~parseThrows(rawData))
           => /\ pc # "thrown"
              /\ InAutoSync => manualMrIid = None
              /\ pc = "start" => mrIid = FoundIid /\ Lookups # {}
    /\ (/\ action \notin {Some("auto"), Some("info"), Some("changes")}
        /\ ~notAction(action)
        /\ rawData # None
        /\ InAutoSync)
           => /\ manualMrIid = action
              /\ Lookups = {}
              /\ pc = "start" => mrIid = action

====
